---- MODULE Spec2Model ----
(***************************************************************************)
(* Exhaustive nearest-neighbour search of knowhere's faiss fork            *)
(* (thirdparty/faiss/faiss/utils/distances.cpp): distance kernels, the     *)
(* nested-loop and BLAS-tiled strategies, the top-k / range-search         *)
(* drivers, the by-index re-rank calls and Elkan's pruned assignment.      *)
(*                                                                         *)
(* Floats are modelled as exact fixed-point numbers: the integer n stands  *)
(* for the value n / Scale.  Vectors are drawn from Vecs, whose L2 norms   *)
(* are non-zero integers dividing Scale, so that sqrtf and the division of *)
(* the cosine kernel are exact.  Rounding is not modelled.                 *)
(*                                                                         *)
(* Queries and database positions are 0-based, as in the source.           *)
(***************************************************************************)
EXTENDS Integers, Sequences, FiniteSets, TLC

VARIABLES
    x,        \* query batch: function 0..nx-1 -> vector
    y,        \* database batch: function 0..ny-1 -> vector
    bitset,   \* filter mask: the set of database positions whose bit is set
    k,        \* ha->k, the number of result slots per query
    ha,       \* caller-owned top-k output: function 0..nx-1 -> sequence of k slots
    rres,     \* RangeSearchResult: function 0..nx-1 -> set of [dis, id] hits
    call,     \* what the last call was, what it selected and how far it has come
    ids,      \* by-index calls: the candidate ids of each query; Elkan: the ids written
    val,      \* Elkan: the distances written
    ress,     \* parallel over the database: the partial handlers, one per worker
    interrupt, \* whether the interrupt callback asks for cancellation
    index_    \* GpuFlatIndexNode: the index the node owns, if any

vars == <<x, y, bitset, k, ha, rres, call, ids, val, ress, interrupt, index_>>

----------------------------------------------------------------------------
(* Bounds of the model *)

MaxNx == 2
MaxNy == 2
MaxK == 2
MaxBs == 2
MaxThreads == 2

(* The database vectors (norms 2, 5) and the query vectors (norms 1, 5); d = 2 *)
Vecs == {<<0, 2>>, <<3, 4>>}
QVecs == {<<1, 0>>, <<3, 4>>}

d == Len(CHOOSE v \in Vecs : TRUE)

nx == Cardinality(DOMAIN x)
ny == Cardinality(DOMAIN y)

Min(a, b) == IF a < b THEN a ELSE b
Max(a, b) == IF a > b THEN a ELSE b

----------------------------------------------------------------------------
(* Fixed-point floats *)

RECURSIVE SumSq(_, _)
SumSq(v, n) == IF n = 0 THEN 0 ELSE v[n] * v[n] + SumSq(v, n - 1)

ISqrt(n) == CHOOSE r \in 0..n : r * r = n

RECURSIVE Product(_)
Product(S) == IF S = {} THEN 1 ELSE LET e == CHOOSE e \in S : TRUE IN e * Product(S \ {e})

(* a common multiple of every norm a vector of the model has *)
Scale == Product({ISqrt(SumSq(v, d)) : v \in Vecs \cup QVecs})

FDiv(a, b) == (a * Scale) \div b
FSqrt(a) == Scale * ISqrt(a \div Scale)

(* the part of vector v that starts at float offset off: the pointer v + off *)
Off(v, off) == SubSeq(v, off + 1, Len(v))

----------------------------------------------------------------------------
(* Distance kernels (simd/hook.h contracts, spec 4.1) *)

RECURSIVE fvec_inner_product(_, _, _)
fvec_inner_product(a, b, n) ==
    IF n = 0 THEN 0 ELSE Scale * a[n] * b[n] + fvec_inner_product(a, b, n - 1)

RECURSIVE fvec_L2sqr(_, _, _)
fvec_L2sqr(a, b, n) ==
    IF n = 0 THEN 0
    ELSE Scale * (a[n] - b[n]) * (a[n] - b[n]) + fvec_L2sqr(a, b, n - 1)

fvec_norm_L2sqr(a, n) == fvec_inner_product(a, a, n)

fvec_cosine(a, b, n) == FDiv(fvec_inner_product(a, b, n), FSqrt(fvec_norm_L2sqr(b, n)))

(* nr[i] = sqrtf(fvec_norm_L2sqr(x + i * d, d)) for i < n *)
fvec_norms_L2(v, n) == [i \in 0..(n - 1) |-> FSqrt(fvec_norm_L2sqr(v[i], d))]

fvec_norms_L2sqr(v, n) == [i \in 0..(n - 1) |-> fvec_norm_L2sqr(v[i], d)]

(* dis_compute_func: the kernel a metric's nested-loop scan is handed *)
Kernel(metric, a, b) ==
    CASE metric = "IP" -> fvec_inner_product(a, b, d)
      [] metric = "L2" -> fvec_L2sqr(a, b, d)
      [] metric = "COSINE" -> fvec_cosine(a, b, d)

Metrics == {"IP", "L2", "COSINE"}

(* the comparator a metric's drivers instantiate their handler with *)
Cmp(metric) == IF metric = "L2" THEN "CMax" ELSE "CMin"

----------------------------------------------------------------------------
(* Result handlers (faiss/impl/ResultHandler.h; modelled from spec 3, 4.2). *)
(* A handler's state for one query is the set of candidates [dis, id] it    *)
(* holds; slots still holding the sentinel are the ones the set leaves      *)
(* free.  The spec fixes no rule among candidates of equal distance, so     *)
(* every operation yields the SET of states it may end in.                  *)

FloatMax == 1000000

(* C::cmp(a, b): CMax is a > b, CMin is a < b *)
cmp(C, a, b) == IF C = "CMax" THEN a > b ELSE a < b

(* C::neutral(): the distance an empty slot holds *)
neutral(C) == IF C = "CMax" THEN FloatMax ELSE -FloatMax

Sentinel(C) == [dis |-> neutral(C), id |-> -1]

HeapHandler(C, kk) == [kind |-> "heap", C |-> C, k |-> kk, radius |-> 0]
ReservoirHandler(C, kk) == [kind |-> "reservoir", C |-> C, k |-> kk, radius |-> 0]
RangeHandler(C, radius) == [kind |-> "range", C |-> C, k |-> 0, radius |-> radius]

(* the worst distance a full heap holds: heap_dis[0] *)
Top(C, H) == CHOOSE w \in {e.dis : e \in H} : \A e \in H : ~cmp(C, e.dis, w)

(* HeapResultHandler::add_result: replace the current worst element when the *)
(* candidate beats it                                                         *)
HeapAdd(C, kk, H, c) ==
    IF Cardinality(H) < kk
    THEN IF cmp(C, neutral(C), c.dis) THEN {H \cup {c}} ELSE {H}
    ELSE IF cmp(C, Top(C, H), c.dis)
         THEN {(H \ {e}) \cup {c} : e \in {e \in H : e.dis = Top(C, H)}}
         ELSE {H}

(* RangeSearchResultHandler::add_result: keep the candidate when it passes the *)
(* radius predicate (<= radius for CMax, >= radius for CMin)                    *)
RangeAdd(C, radius, H, c) == IF cmp(C, c.dis, radius) THEN {H} ELSE {H \cup {c}}

(* add_result of the handler hd on state H *)
add_result(hd, H, c) ==
    CASE hd.kind = "heap" -> HeapAdd(hd.C, hd.k, H, c)
      [] hd.kind = "reservoir" -> {H \cup {c}}
      [] hd.kind = "range" -> RangeAdd(hd.C, hd.radius, H, c)

AddAll(hd, Hs, c) == UNION {add_result(hd, H, c) : H \in Hs}

(* the candidates of the sequence cs added in order *)
RECURSIVE AddSeq(_, _, _)
AddSeq(hd, Hs, cs) ==
    IF cs = <<>> THEN Hs ELSE AddSeq(hd, AddAll(hd, Hs, Head(cs)), Tail(cs))

(* the best kk of B: any kk-subset no outsider beats (partial selection) *)
BestK(C, kk, B) ==
    {S \in SUBSET B :
        /\ Cardinality(S) = Min(kk, Cardinality(B))
        /\ \A s \in S : \A t \in B \ S : ~cmp(C, s.dis, t.dis)}

(* end(): the reservoir reduces its buffer to the best k; heap and range keep *)
(* what they hold                                                             *)
end(hd, H) == IF hd.kind = "reservoir" THEN BestK(hd.C, hd.k, H) ELSE {H}

EndAll(hd, Hs) == UNION {end(hd, H) : H \in Hs}

(* the best element of S, the lower id first among equal distances *)
First(C, S) ==
    CHOOSE e \in S : \A f \in S :
        e = f \/ cmp(C, f.dis, e.dis) \/ (e.dis = f.dis /\ e.id < f.id)

RECURSIVE Reorder(_, _)
Reorder(C, S) ==
    IF S = {} THEN <<>> ELSE LET b == First(C, S) IN <<b>> \o Reorder(C, S \ {b})

(* the k output slots of one query: the candidates kept, best first, then the *)
(* sentinel in every slot left free                                           *)
ToSlots(C, kk, S) == Reorder(C, S) \o [n \in 1..(kk - Cardinality(S)) |-> Sentinel(C)]

(* the candidates a slot sequence holds *)
Entries(slots) == {slots[n] : n \in DOMAIN slots}

----------------------------------------------------------------------------
(* Nested-loop strategies.  Each routine yields, for every query, the set of *)
(* candidate sets its handler may end with.                                  *)

(* bitset.empty() || !bitset.test(j).  A bitset with no bit set filters     *)
(* nothing, like an empty one, so the mask is the set of its set bits.      *)
Admit(bs, j) == bs = {} \/ j \notin bs

(* a routine that drops the mask test of its inner loop *)
Mut_ScanQuery(hd, metric, i, j, bs, Hs) ==
    AddSeq(hd, Hs, [n \in 1..ny |-> [dis |-> Kernel(metric, x[i], y[n - 1]), id |-> n - 1]])


(* for (j = from; j < ny; j++) if (admitted) resi.add_result(dis(x_i, y_j), j) *)
RECURSIVE ScanQuery(_, _, _, _, _, _)
ScanQuery(hd, metric, i, j, bs, Hs) ==
    IF j >= ny THEN Hs
    ELSE ScanQuery(hd, metric, i, j + 1, bs,
                   IF Admit(bs, j)
                   THEN AddAll(hd, Hs, [dis |-> Kernel(metric, x[i], y[j]), id |-> j])
                   ELSE Hs)

(* resi.begin(i); the scan of the whole database; resi.end() *)
exhaustive_parallel_on_nx(hd, metric, bs) ==
    [i \in 0..(nx - 1) |-> EndAll(hd, ScanQuery(hd, metric, i, 0, bs, {{}}))]

exhaustive_inner_product_seq(hd, bs) ==
    [i \in 0..(nx - 1) |-> EndAll(hd, ScanQuery(hd, "IP", i, 0, bs, {{}}))]

exhaustive_L2sqr_seq(hd, bs) ==
    [i \in 0..(nx - 1) |-> EndAll(hd, ScanQuery(hd, "L2", i, 0, bs, {{}}))]

exhaustive_cosine_seq(hd, bs) ==
    [i \in 0..(nx - 1) |-> EndAll(hd, ScanQuery(hd, "COSINE", i, 0, bs, {{}}))]

----------------------------------------------------------------------------
(* Parallel over the database: per-worker partial handlers, merged.         *)

(* the database positions worker t scans, in increasing order *)
RECURSIVE ScanOwned(_, _, _, _, _, _, _, _)
ScanOwned(hd, metric, i, j, bs, owner, t, Hs) ==
    IF j >= ny THEN Hs
    ELSE ScanOwned(hd, metric, i, j + 1, bs, owner, t,
                   IF owner[j] = t /\ Admit(bs, j)
                   THEN AddAll(hd, Hs, [dis |-> Kernel(metric, x[i], y[j]), id |-> j])
                   ELSE Hs)

(* every order in which the entries of S may be handed over *)
RECURSIVE Orders(_)
Orders(S) ==
    IF S = {} THEN {<<>>}
    ELSE UNION {{<<e>> \o o : o \in Orders(S \ {e})} : e \in S}

(* ress[0].merge(i, ress[t]): fold the other handler's entries into this one *)
merge(hd, H0, Ht) == UNION {AddSeq(hd, {H0}, o) : o \in Orders(Ht)}

(* a merge loop that leaves the other workers' handlers out *)
Mut_MergeFrom(hd, part, t, T, Hs) == Hs

(* for (t = 1; t < thread_max_num; t++) ress[0].merge(i, ress[t]) *)
RECURSIVE MergeFrom(_, _, _, _, _)
MergeFrom(hd, part, t, T, Hs) ==
    IF t >= T THEN Hs
    ELSE MergeFrom(hd, part, t + 1, T,
                   UNION {merge(hd, H0, Ht) : <<H0, Ht>> \in Hs \X part[t]})

(* block_x without the test for 0 *)
Mut_BlockX(l3_size, T, kk) ==
    Min(l3_size \div (d * 4 + T * kk * (4 + 8)), nx)

(* block_x = min(get_l3_size() / val, nx), floored at 1 *)
BlockX(l3_size, T, kk) ==
    LET heap_bytes == d * 4 + T * kk * (4 + 8)
        b == Min(l3_size \div heap_bytes, nx)
    IN IF b = 0 THEN 1 ELSE b

(* one query of one query block: the workers' partial scans, the merge into *)
(* ress[0], end_multiple                                                    *)
ParallelOnNyQuery(hd, metric, bs, T, owner, i) ==
    LET part == [t \in 0..(T - 1) |-> ScanOwned(hd, metric, i, 0, bs, owner, t, {{}})]
    IN EndAll(hd, MergeFrom(hd, part, 1, T, part[0]))

exhaustive_parallel_on_ny(hd, metric, bs, T, owner) ==
    [i \in 0..(nx - 1) |-> ParallelOnNyQuery(hd, metric, bs, T, owner, i)]

(* schedule(static): which worker runs iteration j; every worker gets at most *)
(* one chunk of consecutive iterations, in the order of the worker numbers      *)
Schedules(T) ==
    {o \in [0..(ny - 1) -> 0..(T - 1)] :
        \A j1 \in DOMAIN o, j2 \in DOMAIN o : j1 <= j2 => o[j1] <= o[j2]}

parallel_policy_threshold == 65535

(* exhaustive_L2sqr_IP_seq: the choice of the parallel axis *)
(* thread_max_num / 2 is the quotient of two size_t                          *)
Mut_OverDatabase(nx_, ny_, thread_max_num) ==
    ny_ > parallel_policy_threshold
        \/ (2 * nx_ < thread_max_num /\ ny_ >= thread_max_num * 32)

OverDatabase(nx_, ny_, thread_max_num) ==
    ny_ > parallel_policy_threshold
        \/ (nx_ < thread_max_num \div 2 /\ ny_ >= thread_max_num * 32)

UseParallelOnNy(T) == OverDatabase(nx, ny, T)

exhaustive_L2sqr_IP_seq(hd, metric, bs, T, owner) ==
    IF UseParallelOnNy(T)
    THEN exhaustive_parallel_on_ny(hd, metric, bs, T, owner)
    ELSE exhaustive_parallel_on_nx(hd, metric, bs)

----------------------------------------------------------------------------
(* BLAS-tiled strategies *)

(* sgemm_("Transpose", "Not transpose", nyi, nxi, d, 1, y + j0*d, d,         *)
(*        x + i0*d, d, 0, ip_block, ldc): the column-major nyi x nxi product, *)
(* cell (j - j0) + (i - i0) * ldc holding <x_i, y_j>                          *)
sgemm_(i0, i1, j0, j1, ldc) ==
    [p \in {(j - j0) + (i - i0) * ldc : i \in i0..(i1 - 1), j \in j0..(j1 - 1)} |->
        LET i == i0 + p \div ldc
            j == j0 + (p % ldc)
        IN fvec_inner_product(x[i], y[j], d)]

(* a read of a heap array of length Len at index j: past the end it yields *)
(* whatever lies there                                                      *)
ReadFloat(arr, j, garbage) == IF j \in DOMAIN arr THEN arr[j] ELSE garbage

(* the tile handed to add_results by exhaustive_inner_product_blas *)
InnerProductTile(i0, i1, j0, j1) == sgemm_(i0, i1, j0, j1, j1 - j0)

(* a loop body that stores the value as computed *)
Mut_Clamp(dis) == dis

(* if (dis < 0) dis = 0; *)
Clamp(dis) == IF dis < 0 THEN 0 ELSE dis

(* a tile loop that indexes the database norms by the position in the tile *)
Mut_L2sqrTile(i0, i1, j0, j1, x_norms, y_norms) ==
    LET ip_block == sgemm_(i0, i1, j0, j1, j1 - j0)
    IN [p \in DOMAIN ip_block |->
            LET i == i0 + p \div (j1 - j0)
                dis == x_norms[i] + y_norms[p % (j1 - j0)] - 2 * ip_block[p]
            IN Clamp(dis)]

(* the tile of exhaustive_L2sqr_blas: x_norms[i] + y_norms[j] - 2 * ip,      *)
(* negative values clamped to 0                                               *)
L2sqrTile(i0, i1, j0, j1, x_norms, y_norms) ==
    LET ip_block == sgemm_(i0, i1, j0, j1, j1 - j0)
    IN [p \in DOMAIN ip_block |->
            LET i == i0 + p \div (j1 - j0)
                j == j0 + (p % (j1 - j0))
                dis == x_norms[i] + y_norms[j] - 2 * ip_block[p]
            IN Clamp(dis)]

(* the tile of exhaustive_cosine_blas: ip / y_norms[j], where y_norms is the *)
(* array of nx floats filled by fvec_norms_L2(y_norms, x, d, nx)              *)
CosineTile(i0, i1, j0, j1, y_norms, garbage) ==
    LET ip_block == sgemm_(i0, i1, j0, j1, j1 - j0)
    IN [p \in DOMAIN ip_block |->
            LET j == j0 + (p % (j1 - j0))
            IN FDiv(ip_block[p], ReadFloat(y_norms, j, garbage))]

(* knn_jaccard: d is a multiple of 4 *)
JaccardDim == 4
JaccardVecs == {<<1, 1, 0, 0>>, <<0, 1, 1, 0>>, <<0, 0, 1, 1>>}

(* const size_t bs_x = 4096, bs_y = 1024 *)
JaccardBsX == 4096
JaccardBsY == 1024

(* NopDistanceCorrection *)
corr(dis, qno, bno) == dis

(* the tile of knn_jaccard_blas: the cells of the positions the mask admits *)
(* become corr(max(0, 1 - ip / (x_norms[i] + y_norms[j] - ip)), i, j), the  *)
(* other cells are left as sgemm_ wrote them                                *)
JaccardTile(i0, i1, j0, j1) ==
    [p \in 0..((i1 - i0) * (j1 - j0) - 1) |->
        LET i == i0 + p \div (j1 - j0)
            j == j0 + (p % (j1 - j0))
            ip == fvec_inner_product(x[i], y[j], JaccardDim)
            x_norm == fvec_inner_product(x[i], x[i], JaccardDim)
            y_norm == fvec_inner_product(y[j], y[j], JaccardDim)
        IN IF Admit(bitset, j)
           THEN corr(Clamp(Scale - FDiv(ip, x_norm + y_norm - ip)), i, j)
           ELSE ip]

(* the tile a BLAS routine hands to its handler *)
Tile(routine, i0, i1, j0, j1, y_norms, garbage) ==
    CASE routine = "IP" -> InnerProductTile(i0, i1, j0, j1)
      [] routine = "L2" ->
            L2sqrTile(i0, i1, j0, j1, fvec_norms_L2sqr(x, nx),
                      IF y_norms.null THEN fvec_norms_L2sqr(y, ny) ELSE y_norms.at)
      [] routine = "COSINE" ->
            CosineTile(i0, i1, j0, j1, fvec_norms_L2(x, nx), garbage)
      [] routine = "JACCARD" -> JaccardTile(i0, i1, j0, j1)

(* res.add_results(j0, j1, dis_tab, bitset) for query i of the block i0..i1: *)
(* every admitted j of the tile, in order, with the distance of its cell      *)
RECURSIVE add_results(_, _, _, _, _, _, _, _)
add_results(hd, Hs, i, i0, j, j0, j1, tb) ==
    IF j >= j1 THEN Hs
    ELSE add_results(hd,
                     IF Admit(tb.bitset, j)
                     THEN AddAll(hd, Hs, [dis |-> tb.dis_tab[(j1 - j0) * (i - i0) + j - j0],
                                          id |-> j])
                     ELSE Hs,
                     i, i0, j + 1, j0, j1, tb)

(* for (j0 = 0; j0 < ny; j0 += bs_y): compute the tile, add its results *)
RECURSIVE DatabaseBlocks(_, _, _, _, _, _, _, _, _, _)
DatabaseBlocks(routine, hd, bs, bs_y, y_norms, garbage, i, i0, i1, st) ==
    IF st.j0 >= ny THEN st.Hs
    ELSE LET j1 == Min(st.j0 + bs_y, ny)
             dis_tab == Tile(routine, i0, i1, st.j0, j1, y_norms, garbage)
             Hs2 == add_results(hd, st.Hs, i, i0, st.j0, st.j0, j1,
                                [dis_tab |-> dis_tab, bitset |-> bs])
         IN DatabaseBlocks(routine, hd, bs, bs_y, y_norms, garbage, i, i0, i1,
                           [j0 |-> st.j0 + bs_y, Hs |-> Hs2])

(* one query block i0..i1: begin_multiple, the database blocks, end_multiple; *)
(* the result of each of its queries                                          *)
QueryBlock(routine, hd, bs, bs_y, y_norms, garbage, i0, i1) ==
    [i \in i0..(i1 - 1) |->
        EndAll(hd, DatabaseBlocks(routine, hd, bs, bs_y, y_norms, garbage, i, i0, i1,
                                  [j0 |-> 0, Hs |-> {{}}]))]

(* the query block query i falls in *)
BlockOf(i, bs_x) == (i \div bs_x) * bs_x

(* exhaustive_{inner_product,L2sqr,cosine}_blas run to the end: the results   *)
(* of every query.  With nx = 0 or ny = 0 the routine returns at once and     *)
(* hands the handler nothing: see BlasReturnsEarly.                           *)
exhaustive_blas(routine, hd, bs, bs_x, bs_y, y_norms, garbage) ==
    [i \in 0..(nx - 1) |->
        LET i0 == BlockOf(i, bs_x)
        IN QueryBlock(routine, hd, bs, bs_y, y_norms, garbage,
                      i0, Min(i0 + bs_x, nx))[i]]

(* if (nx == 0 || ny == 0) return; *)
BlasReturnsEarly == nx = 0 \/ ny = 0

----------------------------------------------------------------------------
(* Inputs of the calls *)

(* distance_compute_blas_threshold: below and above every nx of the model *)
BlasThresholds == {1, MaxNx + 1}

(* distance_compute_min_k_reservoir: below and above every k of the model *)
ReservoirThresholds == {1, MaxK + 1}

(* distance_compute_blas_query_bs, distance_compute_blas_database_bs *)
BlockSizes == 1..MaxBs

(* omp_get_max_threads() *)
ThreadCounts == 1..MaxThreads

(* what a read past the end of a float array may yield *)
GarbageFloats == {Scale, 3 * Scale}

(* the values read past the end of an array of len floats indexed by j < ny *)
PastEnd(len) == IF ny > len THEN GarbageFloats ELSE {0}

(* y_norm2 of knn_L2sqr when the caller passes no norms *)
nullptr == [null |-> TRUE, at |-> <<>>]

(* radius of the range searches (2 and 13) *)
Radii == {2 * Scale, 13 * Scale}

(* what the caller's output buffer holds before the call *)
GarbageSlots == {[dis |-> 0, id |-> 0]}

NoCall ==
    [op |-> "none", metric |-> "none", handler |-> "none", strategy |-> "none",
     bs_x |-> 0, bs_y |-> 0, radius |-> 0]

TopK(metric, hd, strategy, bs_x, bs_y) ==
    [op |-> "knn", metric |-> metric, handler |-> hd.kind, strategy |-> strategy,
     bs_x |-> bs_x, bs_y |-> bs_y, radius |-> 0]

Range(metric, hd, strategy, bs_x, bs_y) ==
    [op |-> "range_search", metric |-> metric, handler |-> hd.kind,
     strategy |-> strategy, bs_x |-> bs_x, bs_y |-> bs_y, radius |-> hd.radius]

(* the slot sequences the handler may leave for each query, given the sets R *)
(* of candidate sets it may end with                                         *)
Layouts(C, R) ==
    LET slots(i) == {ToSlots(C, k, S) : S \in R[i]}
    IN {f \in [DOMAIN R -> UNION {slots(i) : i \in DOMAIN R}] :
            \A i \in DOMAIN R : f[i] \in slots(i)}

(* the hit lists the range handler may leave for each query *)
HitLists(R) ==
    {f \in [DOMAIN R -> UNION {R[i] : i \in DOMAIN R}] : \A i \in DOMAIN R : f[i] \in R[i]}

(* ha->k < distance_compute_min_k_reservoir selects the heap handler *)
SelectHandler(C, min_k_reservoir) ==
    IF k < min_k_reservoir THEN HeapHandler(C, k) ELSE ReservoirHandler(C, k)

----------------------------------------------------------------------------
(* Drivers *)

(* the nested-loop branch of a top-k driver, with the kernel it passes *)
KnnSeq(metric, kernel, hd) ==
    \/ \E T \in ThreadCounts :
        /\ UseParallelOnNy(T)
        /\ \E owner \in Schedules(T) :
            /\ ha' \in Layouts(hd.C, exhaustive_parallel_on_ny(hd, kernel, bitset, T, owner))
            /\ call' = TopK(metric, hd, "parallel_on_ny", 0, 0)
    \/ /\ \E T \in ThreadCounts : ~UseParallelOnNy(T)
       /\ ha' \in Layouts(hd.C, exhaustive_parallel_on_nx(hd, kernel, bitset))
       /\ call' = TopK(metric, hd, "parallel_on_nx", 0, 0)

(* the BLAS branch of a top-k driver *)
KnnBlas(metric, hd, y_norms) ==
    \E bs_x \in BlockSizes, bs_y \in BlockSizes :
        /\ call' = TopK(metric, hd, "blas", bs_x, bs_y)
        /\ IF BlasReturnsEarly
           THEN ha' = ha
           ELSE \E garbage \in (IF metric = "COSINE" THEN PastEnd(nx) ELSE {0}) :
                    ha' \in Layouts(hd.C, exhaustive_blas(metric, hd, bitset, bs_x, bs_y,
                                                          y_norms, garbage))

knn_inner_product ==
    /\ call = NoCall
    /\ \E blas_threshold \in BlasThresholds, min_k_reservoir \in ReservoirThresholds :
        LET res == SelectHandler("CMin", min_k_reservoir)
        IN IF nx < blas_threshold
           THEN KnnSeq("IP", "IP", res)
           ELSE KnnBlas("IP", res, nullptr)
    /\ UNCHANGED <<x, y, bitset, k, rres, ids, val, ress, interrupt, index_>>

knn_L2sqr ==
    /\ call = NoCall
    /\ \E blas_threshold \in BlasThresholds, min_k_reservoir \in ReservoirThresholds :
        LET res == SelectHandler("CMax", min_k_reservoir)
        IN IF nx < blas_threshold
           THEN KnnSeq("L2", "L2", res)
           ELSE KnnBlas("L2", res, nullptr)
    /\ UNCHANGED <<x, y, bitset, k, rres, ids, val, ress, interrupt, index_>>

(* the kernel knn_cosine hands its nested-loop branch: fvec_cosine with the *)
(* heap handler, fvec_inner_product with the reservoir handler              *)
CosineSeqKernel(res) == IF res.kind = "heap" THEN "COSINE" ELSE "IP"

knn_cosine ==
    /\ call = NoCall
    /\ \E blas_threshold \in BlasThresholds, min_k_reservoir \in ReservoirThresholds :
        LET res == SelectHandler("CMin", min_k_reservoir)
        IN IF nx < blas_threshold
           THEN KnnSeq("COSINE", CosineSeqKernel(res), res)
           ELSE KnnBlas("COSINE", res, nullptr)
    /\ UNCHANGED <<x, y, bitset, k, rres, ids, val, ress, interrupt, index_>>

(* the two branches of a range-search driver.  A range search takes no heap *)
(* array: it is run on the instances with k = 1 only, not once per k.        *)
RangeSeq(metric, resh, R) ==
    /\ rres' \in HitLists(R)
    /\ call' = Range(metric, resh, "seq", 0, 0)

RangeBlas(metric, resh) ==
    \E bs_x \in BlockSizes, bs_y \in BlockSizes :
        /\ call' = Range(metric, resh, "blas", bs_x, bs_y)
        /\ IF BlasReturnsEarly
           THEN rres' = rres
           ELSE \E garbage \in (IF metric = "COSINE" THEN PastEnd(nx) ELSE {0}) :
                    rres' \in HitLists(exhaustive_blas(metric, resh, bitset, bs_x, bs_y,
                                                       nullptr, garbage))

range_search_L2sqr ==
    /\ call = NoCall /\ k = 1
    /\ \E blas_threshold \in BlasThresholds, radius \in Radii :
        LET resh == RangeHandler("CMax", radius)
        IN IF nx < blas_threshold
           THEN RangeSeq("L2", resh, exhaustive_L2sqr_seq(resh, bitset))
           ELSE RangeBlas("L2", resh)
    /\ UNCHANGED <<x, y, bitset, k, ha, ids, val, ress, interrupt, index_>>

range_search_inner_product ==
    /\ call = NoCall /\ k = 1
    /\ \E blas_threshold \in BlasThresholds, radius \in Radii :
        LET resh == RangeHandler("CMin", radius)
        IN IF nx < blas_threshold
           THEN RangeSeq("IP", resh, exhaustive_inner_product_seq(resh, bitset))
           ELSE RangeBlas("IP", resh)
    /\ UNCHANGED <<x, y, bitset, k, ha, ids, val, ress, interrupt, index_>>

range_search_cosine ==
    /\ call = NoCall /\ k = 1
    /\ \E blas_threshold \in BlasThresholds, radius \in Radii :
        LET resh == RangeHandler("CMin", radius)
        IN IF nx < blas_threshold
           THEN RangeSeq("COSINE", resh, exhaustive_cosine_seq(resh, bitset))
           ELSE RangeBlas("COSINE", resh)
    /\ UNCHANGED <<x, y, bitset, k, ha, ids, val, ress, interrupt, index_>>

(* exhaustive_parallel_on_ny run on the model's databases.  The drivers pick *)
(* it only for ny > 65535 or ny >= 32 * T (UseParallelOnNy), beyond the      *)
(* model's databases, so the routine is also run on its own here, with the   *)
(* kernel and handler each top-k driver hands it.                            *)
ParallelOnNy ==
    /\ call = NoCall
    /\ \E metric \in Metrics, min_k_reservoir \in ReservoirThresholds,
          T \in ThreadCounts :
        \E owner \in Schedules(T) :
            LET res == SelectHandler(Cmp(metric), min_k_reservoir)
            IN /\ ha' \in Layouts(res.C, exhaustive_parallel_on_ny(res, metric, bitset,
                                                                   T, owner))
               /\ call' = TopK(metric, res, "parallel_on_ny", 0, 0)
    /\ UNCHANGED <<x, y, bitset, k, rres, ids, val, ress, interrupt, index_>>

----------------------------------------------------------------------------
(* The searches: one problem instance and one call on it.  A call reads the  *)
(* inputs and the output buffer only, so a later call starts from a state   *)
(* Init already holds.                                                      *)

Batches(n0, n, V) == UNION {[0..(m - 1) -> V] : m \in n0..n}

Init ==
    /\ x \in Batches(1, MaxNx, QVecs)
    /\ y \in Batches(0, MaxNy, Vecs)
    /\ bitset \in SUBSET (DOMAIN y)
    /\ k \in 1..MaxK
    /\ \E g \in GarbageSlots : ha = [i \in DOMAIN x |-> [n \in 1..k |-> g]]
    /\ rres = [i \in DOMAIN x |-> {}]
    /\ call = NoCall
    /\ ids = <<>> /\ val = <<>> /\ ress = <<>> /\ interrupt = FALSE
    /\ index_ = nullptr

Next ==
    \/ knn_inner_product
    \/ knn_L2sqr
    \/ knn_cosine
    \/ range_search_L2sqr
    \/ range_search_inner_product
    \/ range_search_cosine
    \/ ParallelOnNy

Spec == Init /\ [][Next]_vars

----------------------------------------------------------------------------
(* Properties of the searches *)

(* the database positions the mask lets through *)
Unmasked == {j \in DOMAIN y : Admit(bitset, j)}

(* the distances of a top-k output, slot by slot *)
Dists(h) == [i \in DOMAIN h |-> [n \in DOMAIN h[i] |-> h[i][n].dis]]

(* the handler the last top-k call selected *)
CallHandler ==
    IF call.handler = "heap" THEN HeapHandler(Cmp(call.metric), k)
    ELSE ReservoirHandler(Cmp(call.metric), k)

(* C1: after a top-k or range-search call with a filter mask, whichever      *)
(* strategy ran, no masked database position is the id of a result.          *)
C1_MaskedNeverReturned ==
    /\ call.op = "knn" =>
        \A i \in DOMAIN ha : \A n \in DOMAIN ha[i] : ha[i][n].id \notin bitset
    /\ call.op = "range_search" =>
        \A i \in DOMAIN rres : \A h \in rres[i] : h.id \notin bitset

(* a call that returned a result although a masked position scores better *)
C1_Witness ==
    /\ call.op \in {"knn", "range_search"}
    /\ call.strategy \in {"blas", "parallel_on_ny"}
    /\ \E i \in DOMAIN x : \E j \in bitset :
        \/ /\ call.op = "knn"
           /\ ha[i][1].id \in Unmasked
           /\ cmp(Cmp(call.metric), ha[i][1].dis, Kernel(call.metric, x[i], y[j]))
        \/ /\ call.op = "range_search"
           /\ rres[i] # {}
           /\ ~cmp(Cmp(call.metric), Kernel(call.metric, x[i], y[j]), call.radius)

(* C2: every entry a top-k call returns carries the metric kernel's distance *)
(* of its query and its database vector.                                     *)
C2_DistanceIsKernel ==
    call.op = "knn" =>
        \A i \in DOMAIN ha : \A n \in DOMAIN ha[i] :
            ha[i][n].id \in DOMAIN y =>
                ha[i][n].dis = Kernel(call.metric, x[i], y[ha[i][n].id])

(* C3: for inner product and L2 with k <= ny, what the nested-loop path      *)
(* returns is what the BLAS path returns, for every tile size, and the other *)
(* way round (among candidates of equal distance: the same possible choices).*)
C3_SeqEqualsBlas ==
    (call.op = "knn" /\ call.metric \in {"IP", "L2"} /\ k <= ny) =>
        /\ call.strategy = "blas" =>
            ha \in Layouts(Cmp(call.metric),
                           exhaustive_parallel_on_nx(CallHandler, call.metric, bitset))
        /\ call.strategy = "parallel_on_nx" =>
            \A bs_x \in BlockSizes, bs_y \in BlockSizes :
                ha \in Layouts(Cmp(call.metric),
                               exhaustive_blas(call.metric, CallHandler, bitset,
                                               bs_x, bs_y, nullptr, 0))

(* a BLAS call over several database tiles, with a query tile that does not *)
(* divide the batch, whose result keeps a later candidate and drops another *)
C3_Witness ==
    /\ call.op = "knn" /\ call.metric = "L2" /\ call.strategy = "blas"
    /\ k <= ny /\ k < Cardinality(Unmasked)
    /\ nx % call.bs_x # 0 /\ call.bs_y < ny
    /\ \E i \in DOMAIN ha : ha[i][1].id > 0

(* C4: with the same inputs the reservoir handler returns the top-k the heap *)
(* handler returns (compared by their distances, slot by slot: which of two  *)
(* candidates of equal distance is kept is left open).                       *)
C4_ReservoirEqualsHeap ==
    (call.op = "knn" /\ call.handler = "reservoir"
        /\ call.strategy = "parallel_on_nx") =>
        LET heap == HeapHandler(Cmp(call.metric), k)
            kernel == IF call.metric = "COSINE" THEN CosineSeqKernel(heap)
                      ELSE call.metric
        IN Dists(ha) \in {Dists(h) : h \in Layouts(heap.C,
                            exhaustive_parallel_on_nx(heap, kernel, bitset))}

(* C5: a range search returns, for each query, exactly the unmasked database *)
(* positions whose kernel distance passes the radius predicate.              *)
C5_RangeIsExact ==
    call.op = "range_search" =>
        \A i \in DOMAIN rres :
            rres[i] = {[dis |-> Kernel(call.metric, x[i], y[j]), id |-> j] :
                        j \in {j \in Unmasked :
                                ~cmp(Cmp(call.metric),
                                     Kernel(call.metric, x[i], y[j]), call.radius)}}

(* C7: after a top-k call every slot holds an unmasked database position or *)
(* the sentinel id -1, and the sentinel only once the candidates ran out.   *)
C7_SlotsValidOrSentinel ==
    call.op = "knn" =>
        \A i \in DOMAIN ha :
            /\ \A n \in DOMAIN ha[i] : ha[i][n].id \in Unmasked \cup {-1}
            /\ Cardinality({n \in DOMAIN ha[i] : ha[i][n].id # -1})
                = Min(k, Cardinality(Unmasked))

----------------------------------------------------------------------------
(* Elkan's pruned nearest-centroid assignment: elkan_L2_sse                 *)

MaxElkanNy == 3

(* the centroids and the points assigned to them *)
ElkanY == {<<0, 0>>, <<3, 0>>, <<1, 1>>, <<1, 0>>}
ElkanX == {<<1, 0>>, <<3, 0>>, <<0, 2>>}

(* const size_t bs_y = 1024: the block size, here every size up to the      *)
(* largest database of the model                                            *)
ElkanBlockSizes == 1..MaxElkanNy

(* what malloc'ed memory may hold before it is written *)
ElkanGarbage == {0, FloatMax}

(* a slot chosen by the larger member of the pair alone *)
Mut_YIndex(i, j, j0) == Max(i - j0, j - j0) - 1

(* Y(i, j): the slot of data that holds the distance of y_i and y_j, for a  *)
(* block that starts at j0                                                  *)
YIndex(i, j, j0) ==
    LET a == i - j0
        b == j - j0
    IN IF a > b THEN b + (a * (a - 1)) \div 2 ELSE a + (b * (b - 1)) \div 2

(* the worker w.rank of w.nt, from its row i and column j on:               *)
(* for (i = j0 + 1 + rank; i < j1; i += nt) for (j = j0; j < i; j++)        *)
(*     Y(i, j) = fvec_L2sqr(y_i, y_j, d)                                    *)
(* st holds data and the writes made to it                                  *)
RECURSIVE ElkanFill(_, _, _, _, _, _)
ElkanFill(st, j0, j1, i, j, w) ==
    IF i >= j1 THEN st
    ELSE IF j >= i THEN ElkanFill(st, j0, j1, i + w.nt, j0, w)
    ELSE ElkanFill([data |-> [st.data EXCEPT ![YIndex(i, j, j0)] =
                                    fvec_L2sqr(y[i], y[j], d)],
                    writes |-> st.writes \cup
                        {[rank |-> w.rank, i |-> i, j |-> j,
                          cell |-> YIndex(i, j, j0)]}],
                   j0, j1, i, j + 1, w)

(* #pragma omp parallel: the workers rank, rank + 1, ..., nt - 1 *)
RECURSIVE ElkanWorkers(_, _, _, _, _)
ElkanWorkers(st, j0, j1, rank, nt) ==
    IF rank >= nt THEN st
    ELSE ElkanWorkers(ElkanFill(st, j0, j1, j0 + 1 + rank, j0,
                                [rank |-> rank, nt |-> nt]),
                      j0, j1, rank + 1, nt)

(* a skip test that leaves out the factor 4 of the squared distances *)
Mut_ElkanSkip(val_i, y_ij) == val_i <= y_ij

(* if (val_i_time_4 <= Y(ids_i, j)) continue; *)
ElkanSkip(val_i, y_ij) == val_i * 4 <= y_ij

(* the loop over the candidates j of one block for query i; best is the     *)
(* pair ids_i, val_i, with the lookups Y(ids_i, j) made so far              *)
RECURSIVE ElkanScan(_, _, _, _, _, _)
ElkanScan(data, i, j0, j1, j, best) ==
    IF j >= j1 THEN best
    ELSE LET half == fvec_L2sqr(x[i], y[j], d \div 2)
             disij == half + fvec_L2sqr(Off(x[i], d \div 2), Off(y[j], d \div 2),
                                        d - d \div 2)
             looked == [best EXCEPT !.lookups = @ \cup
                            {[i |-> best.ids, j |-> j,
                              cell |-> YIndex(best.ids, j, j0)]}]
         IN ElkanScan(data, i, j0, j1, j + 1,
                IF ElkanSkip(best.val, data[YIndex(best.ids, j, j0)]) THEN looked
                ELSE IF half >= best.val THEN looked
                ELSE IF disij < best.val
                     THEN [looked EXCEPT !.ids = j, !.val = disij]
                ELSE looked)

(* for (j0 = 0; j0 < ny; j0 += bs_y): the nt workers fill the pairwise      *)
(* distances of the block, then the block is scanned for every query, which *)
(* commits when j0 == 0 or strictly better; out.blocks lists for each block *)
(* the writes of the workers and the lookups of the scans                   *)
RECURSIVE ElkanBlocks(_, _, _, _, _)
ElkanBlocks(bs_y, nt, data, j0, out) ==
    IF j0 >= ny THEN out
    ELSE LET j1 == Min(j0 + bs_y, ny)
             filled == ElkanWorkers([data |-> data, writes |-> {}], j0, j1, 0, nt)
             scan == [i \in 0..(nx - 1) |->
                        ElkanScan(filled.data, i, j0, j1, j0 + 1,
                                  [ids |-> j0, val |-> fvec_L2sqr(x[i], y[j0], d),
                                   lookups |-> {}])]
             commit(i) == j0 = 0 \/ out.val[i] > scan[i].val
         IN ElkanBlocks(bs_y, nt, filled.data, j1,
                [ids |-> [i \in 0..(nx - 1) |->
                            IF commit(i) THEN scan[i].ids ELSE out.ids[i]],
                 val |-> [i \in 0..(nx - 1) |->
                            IF commit(i) THEN scan[i].val ELSE out.val[i]],
                 blocks |-> Append(out.blocks,
                    [j0 |-> j0, j1 |-> j1, writes |-> filled.writes,
                     lookups |-> UNION {scan[i].lookups : i \in 0..(nx - 1)}])])

ElkanCall(bs_y, nt, blocks) ==
    [op |-> "elkan_L2_sse", bs_y |-> bs_y, nt |-> nt, blocks |-> blocks]

elkan_L2_sse ==
    /\ call = NoCall
    /\ \E bs_y \in ElkanBlockSizes, nt \in ThreadCounts, garbage \in ElkanGarbage :
        IF nx = 0 \/ ny = 0
        THEN /\ call' = ElkanCall(bs_y, nt, <<>>)
             /\ UNCHANGED <<ids, val>>
        ELSE LET data == [p \in 0..((bs_y * (bs_y - 1)) \div 2 - 1) |-> garbage]
                 out == ElkanBlocks(bs_y, nt, data, 0,
                                    [ids |-> ids, val |-> val, blocks |-> <<>>])
             IN /\ ids' = out.ids /\ val' = out.val
                /\ call' = ElkanCall(bs_y, nt, out.blocks)
    /\ UNCHANGED <<x, y, bitset, k, ha, rres, ress, interrupt, index_>>

InitElkan ==
    /\ x \in Batches(1, MaxNx, ElkanX)
    /\ y \in Batches(0, MaxElkanNy, ElkanY)
    /\ ids = [i \in DOMAIN x |-> -1]
    /\ val = [i \in DOMAIN x |-> 0]
    /\ bitset = {} /\ k = 1 /\ ha = <<>> /\ rres = <<>> /\ call = NoCall
    /\ ress = <<>> /\ interrupt = FALSE
    /\ index_ = nullptr

NextElkan == elkan_L2_sse

SpecElkan == InitElkan /\ [][NextElkan]_vars

(* the scan the assignment must agree with: every database vector in order, *)
(* keeping the first strictly smaller distance                              *)
RECURSIVE BruteForce(_, _, _)
BruteForce(i, j, best) ==
    IF j >= ny THEN best
    ELSE BruteForce(i, j + 1,
            IF fvec_L2sqr(x[i], y[j], d) < best.val
            THEN [ids |-> j, val |-> fvec_L2sqr(x[i], y[j], d)]
            ELSE best)

(* C6: for every block size, elkan_L2_sse writes for each query the id and  *)
(* the squared L2 distance a brute-force scan of the whole database finds   *)
(* when it keeps the first strictly smaller distance.                       *)
C6_ElkanIsBruteForce ==
    (call.op = "elkan_L2_sse" /\ ny >= 1) =>
        \A i \in DOMAIN x :
            LET bf == BruteForce(i, 1, [ids |-> 0, val |-> fvec_L2sqr(x[i], y[0], d)])
            IN ids[i] = bf.ids /\ val[i] = bf.val

(* a call over two blocks: the first one skips a centroid by the triangle   *)
(* inequality and drops another at the half dimension, the second one holds *)
(* the nearest centroid and overwrites the first one's result               *)
C6_Witness ==
    /\ call.op = "elkan_L2_sse" /\ call.bs_y = 2 /\ ny = 3
    /\ \E i \in DOMAIN x :
        /\ ids[i] = 2
        /\ val[i] < fvec_L2sqr(x[i], y[0], d)
        /\ ElkanSkip(fvec_L2sqr(x[i], y[0], d), fvec_L2sqr(y[0], y[1], d))
    /\ \E i \in DOMAIN x :
        /\ ~ElkanSkip(fvec_L2sqr(x[i], y[0], d), fvec_L2sqr(y[0], y[1], d))
        /\ fvec_L2sqr(x[i], y[1], d \div 2) >= fvec_L2sqr(x[i], y[0], d)

----------------------------------------------------------------------------
(* By-index re-rank: knn_inner_products_by_idx, knn_L2sqr_by_idx.  Each      *)
(* query has a list of candidate ids (the source's ny is the length of the  *)
(* list); the heap operations are those of the heap handler.                *)

(* candidate lists of length n: database positions, none twice, and -1 *)
IdLists(n) ==
    {l \in [0..(n - 1) -> {-1} \cup DOMAIN y] :
        \A a \in DOMAIN l, b \in DOMAIN l : (a # b /\ l[a] >= 0) => l[a] # l[b]}

(* the d floats at y + d * id; before the start of y whatever lies there,   *)
(* seen by the kernel as the distance garbage                               *)
DisAt(metric, i, id, garbage) ==
    IF id \in DOMAIN y THEN Kernel(metric, x[i], y[id]) ELSE garbage

(* for (j = 0; j < ny; j++) { if (idsi[j] < 0) break; ip = ...;             *)
(*     if (ip > simi[0]) minheap_replace_top(k, simi, idxi, ip, idsi[j]); } *)
(* st holds the possible heaps and the ids used to address y                *)
RECURSIVE ScanIdsIP(_, _, _, _)
ScanIdsIP(hd, i, j, st) ==
    IF j >= Cardinality(DOMAIN ids[i]) THEN st
    ELSE IF ids[i][j] < 0 THEN st
    ELSE ScanIdsIP(hd, i, j + 1,
            [Hs |-> AddAll(hd, st.Hs, [dis |-> DisAt("IP", i, ids[i][j], 0),
                                       id |-> ids[i][j]]),
             addressed |-> st.addressed \cup {ids[i][j]}])

(* for (j = 0; j < ny; j++) { disij = fvec_L2sqr(x_, y + d * idsi[j], d);   *)
(*     if (disij < simi[0]) maxheap_replace_top(k, simi, idxi, disij, idsi[j]); } *)
RECURSIVE ScanIdsL2(_, _, _, _, _)
ScanIdsL2(hd, i, j, garbage, st) ==
    IF j >= Cardinality(DOMAIN ids[i]) THEN st
    ELSE ScanIdsL2(hd, i, j + 1, garbage,
            [Hs |-> AddAll(hd, st.Hs, [dis |-> DisAt("L2", i, ids[i][j], garbage),
                                       id |-> ids[i][j]]),
             addressed |-> st.addressed \cup {ids[i][j]}])

ByIdxCall(op, metric, scan) ==
    [op |-> op, metric |-> metric,
     addressed |-> [i \in DOMAIN scan |-> scan[i].addressed]]

knn_inner_products_by_idx ==
    /\ call = NoCall
    /\ LET hd == HeapHandler("CMin", k)
           scan == [i \in DOMAIN x |->
                        ScanIdsIP(hd, i, 0, [Hs |-> {{}}, addressed |-> {}])]
       IN /\ ha' \in Layouts("CMin", [i \in DOMAIN x |-> scan[i].Hs])
          /\ call' = ByIdxCall("knn_inner_products_by_idx", "IP", scan)
    /\ UNCHANGED <<x, y, bitset, k, rres, ids, val, ress, interrupt, index_>>

knn_L2sqr_by_idx ==
    /\ call = NoCall
    /\ \E garbage \in GarbageFloats :
        LET hd == HeapHandler("CMax", k)
            scan == [i \in DOMAIN x |->
                        ScanIdsL2(hd, i, 0, garbage, [Hs |-> {{}}, addressed |-> {}])]
        IN /\ ha' \in Layouts("CMax", [i \in DOMAIN x |-> scan[i].Hs])
           /\ call' = ByIdxCall("knn_L2sqr_by_idx", "L2", scan)
    /\ UNCHANGED <<x, y, bitset, k, rres, ids, val, ress, interrupt, index_>>

InitByIdx ==
    /\ x \in Batches(1, MaxNx, QVecs)
    /\ y \in Batches(1, MaxNy, Vecs)
    /\ k \in 1..MaxK
    /\ \E n \in 0..MaxNy : ids \in [DOMAIN x -> IdLists(n)]
    /\ \E g \in GarbageSlots : ha = [i \in DOMAIN x |-> [n \in 1..k |-> g]]
    /\ bitset = {} /\ rres = <<>> /\ call = NoCall
    /\ val = <<>> /\ ress = <<>> /\ interrupt = FALSE
    /\ index_ = nullptr

NextByIdx ==
    \/ knn_inner_products_by_idx
    \/ knn_L2sqr_by_idx

SpecByIdx == InitByIdx /\ [][NextByIdx]_vars

(* the candidates of query i before the first negative id of its list *)
Before(i) ==
    {j \in DOMAIN ids[i] : \A j2 \in 0..j : ids[i][j2] >= 0}

(* C8: in both by-index calls the first negative id of a query's list ends  *)
(* the list: no id at or after it addresses the database or enters the      *)
(* heap, and the result is the top-k of the candidates before it.           *)
C8_NegativeIdTerminates ==
    call.op \in {"knn_inner_products_by_idx", "knn_L2sqr_by_idx"} =>
        \A i \in DOMAIN x :
            LET cands == {[dis |-> Kernel(call.metric, x[i], y[ids[i][j]]),
                           id |-> ids[i][j]] : j \in Before(i)}
                C == Cmp(call.metric)
            IN /\ call.addressed[i] \subseteq {ids[i][j] : j \in Before(i)}
               /\ ha[i] \in {ToSlots(C, k, S) : S \in BestK(C, k, cands)}

----------------------------------------------------------------------------
(* exhaustive_parallel_on_ny step by step: the workers of the parallel loop *)
(* over the database run interleaved, each on the iterations schedule       *)
(* (static) gives it, in increasing order; the merge follows the loop.      *)

(* get_l3_size(): too small for one query's heaps, and large enough for all *)
L3Sizes == {1, 1000}

NyCall(metric, hd, T, owner, l3_size) ==
    [op |-> "exhaustive_parallel_on_ny", metric |-> metric, handler |-> hd.kind,
     T |-> T, owner |-> owner, l3_size |-> l3_size, block_x |-> BlockX(l3_size, T, k),
     x_from |-> 0, done |-> {}, blocks |-> <<>>, pc |-> "scan"]

(* the handler the call was given *)
NyHandler ==
    IF call.handler = "heap" THEN HeapHandler(Cmp(call.metric), k)
    ELSE ReservoirHandler(Cmp(call.metric), k)

(* ress[t].begin_multiple(0, block_x) for every worker t *)
begin_multiple(T, block_x) == [t \in 0..(T - 1) |-> [i \in 0..(block_x - 1) |-> {}]]

(* one value for each index of R out of the set R holds for it *)
OneOfEach(R) ==
    {f \in [DOMAIN R -> UNION {R[i] : i \in DOMAIN R}] : \A i \in DOMAIN R : f[i] \in R[i]}

(* the call: block_x, clone_n, x_from = 0, begin_multiple *)
NyStart ==
    /\ call = NoCall
    /\ \E metric \in Metrics, min_k_reservoir \in ReservoirThresholds,
          T \in ThreadCounts, l3_size \in L3Sizes :
        \E owner \in Schedules(T) :
            LET res == SelectHandler(Cmp(metric), min_k_reservoir)
                block_x == BlockX(l3_size, T, k)
            IN /\ call' = NyCall(metric, res, T, owner, l3_size)
               /\ ress' = begin_multiple(T, block_x)
    /\ UNCHANGED <<x, y, bitset, k, ha, rres, ids, val, interrupt, index_>>

(* worker t runs its next iteration j: if the mask admits j, for every      *)
(* query i of the block ress[t].add_single_result(i, dis(x_i, y_j), j)      *)
NyWorker(t) ==
    /\ call.op = "exhaustive_parallel_on_ny" /\ call.pc = "scan"
    /\ \E j \in DOMAIN y :
        /\ call.owner[j] = t /\ j \notin call.done
        /\ \A j2 \in 0..(j - 1) : call.owner[j2] = t => j2 \in call.done
        /\ LET size == Min(nx, call.x_from + call.block_x) - call.x_from
               added == [i \in 0..(call.block_x - 1) |->
                    IF i < size /\ Admit(bitset, j)
                    THEN add_result(NyHandler, ress[t][i],
                                    [dis |-> Kernel(call.metric, x[call.x_from + i], y[j]),
                                     id |-> j])
                    ELSE {ress[t][i]}]
           IN \E R \in OneOfEach(added) : ress' = [ress EXCEPT ![t] = R]
        /\ call' = [call EXCEPT !.done = @ \cup {j}]
    /\ UNCHANGED <<x, y, bitset, k, ha, rres, ids, val, interrupt, index_>>

(* after the loop: merge heap, end_multiple, copy_from; then the next query *)
(* block, if any, with begin_multiple                                       *)
NyMerge ==
    /\ call.op = "exhaustive_parallel_on_ny" /\ call.pc = "scan"
    /\ call.done = DOMAIN y
    /\ LET x_to == Min(nx, call.x_from + call.block_x)
           part(i) == [t \in 0..(call.T - 1) |-> {ress[t][i]}]
           merged == [i \in DOMAIN x |->
                IF i \in call.x_from..(x_to - 1)
                THEN {ToSlots(NyHandler.C, k, S) :
                        S \in EndAll(NyHandler,
                                     MergeFrom(NyHandler, part(i - call.x_from), 1,
                                               call.T, part(i - call.x_from)[0]))}
                ELSE {ha[i]}]
       IN /\ ha' \in OneOfEach(merged)
          /\ call' = [call EXCEPT !.x_from = x_to, !.done = {},
                                  !.blocks = Append(@, [x_from |-> call.x_from,
                                                        x_to |-> x_to]),
                                  !.pc = IF x_to >= nx THEN "done" ELSE "scan"]
          /\ ress' = IF x_to >= nx THEN ress ELSE begin_multiple(call.T, call.block_x)
    /\ UNCHANGED <<x, y, bitset, k, rres, ids, val, interrupt, index_>>

InitNy ==
    /\ x \in Batches(1, MaxNx, QVecs)
    /\ y \in Batches(0, MaxNy, Vecs)
    /\ bitset \in SUBSET (DOMAIN y)
    /\ k \in 1..MaxK
    /\ \E g \in GarbageSlots : ha = [i \in DOMAIN x |-> [n \in 1..k |-> g]]
    /\ rres = <<>> /\ call = NoCall
    /\ ids = <<>> /\ val = <<>> /\ ress = <<>> /\ interrupt = FALSE
    /\ index_ = nullptr

NextNy ==
    \/ NyStart
    \/ \E t \in 0..(MaxThreads - 1) : NyWorker(t)
    \/ NyMerge

SpecNy == InitNy /\ [][NextNy]_vars

(* the candidates a slot sequence holds, the sentinel left out *)
Kept(slots) == {e \in Entries(slots) : e.id # -1}

(* the final top-k of every query has the distances one sequential scan of  *)
(* the unmasked database ends with, on distinct unmasked positions          *)
NyContentsAsSequential ==
    (call.op = "exhaustive_parallel_on_ny" /\ call.pc = "done") =>
        \A i \in DOMAIN x :
            /\ \E S \in exhaustive_parallel_on_nx(NyHandler, call.metric, bitset)[i] :
                    Dists([q \in {i} |-> ha[i]])
                        = Dists([q \in {i} |-> ToSlots(NyHandler.C, k, S)])
            /\ \A e \in Kept(ha[i]) :
                    e.id \in Unmasked /\ e.dis = Kernel(call.metric, x[i], y[e.id])
            /\ Cardinality({e.id : e \in Kept(ha[i])})
                    = Cardinality({n \in DOMAIN ha[i] : ha[i][n].id # -1})

(* a step of the parallel loop changes the partial handler of the worker    *)
(* that owns the iteration, and no other                                    *)
NyWorkerAddsToOwn ==
    (call.op = "exhaustive_parallel_on_ny" /\ call.pc = "scan"
        /\ call'.x_from = call.x_from /\ call'.done # call.done) =>
        \E j \in call'.done \ call.done :
            \A t \in DOMAIN ress : t # call.owner[j] => ress'[t] = ress[t]

(* C9: in the parallel-over-database routine, for every worker count, every *)
(* assignment of database positions to workers and every merge order, the   *)
(* final top-k of each query has the contents of one sequential scan of the *)
(* unmasked database (up to the choice among equal distances), and a worker *)
(* adds candidates to its own partial heap only.                            *)
C9_ParallelOnNyAsSequential ==
    [](NyContentsAsSequential) /\ [][NyWorkerAddsToOwn]_vars

(* a finished call with two workers and several query blocks, where the     *)
(* candidate of worker 1 replaced the one of worker 0 in the merge          *)
C9_Witness ==
    /\ call.op = "exhaustive_parallel_on_ny" /\ call.pc = "done"
    /\ call.T = 2 /\ call.block_x < nx /\ k = 1
    /\ \E i \in DOMAIN x : \E j0 \in Unmasked, j1 \in Unmasked :
        /\ call.owner[j0] = 0 /\ call.owner[j1] = 1
        /\ ha[i][1].id = j1
        /\ cmp(Cmp(call.metric), Kernel(call.metric, x[i], y[j0]), ha[i][1].dis)

----------------------------------------------------------------------------
(* The BLAS routines query block by query block, with the interrupt check   *)
(* at the end of each block: exhaustive_inner_product_blas,                 *)
(* exhaustive_L2sqr_blas and exhaustive_cosine_blas.                        *)
(* InterruptCallback::check() throws when the callback asks for             *)
(* cancellation; the exception ends the call.  call.trace is the sequence   *)
(* of the calls the routine has made on its handler and on the callback.    *)

BlasCall(routine, hd, bs_x, bs_y) ==
    [op |-> "exhaustive_blas", metric |-> routine, handler |-> hd.kind,
     bs_x |-> bs_x, bs_y |-> bs_y, i0 |-> 0, trace |-> <<>>,
     pc |-> IF BlasReturnsEarly THEN "done" ELSE "run"]

(* the handler the call was given *)
BlasHandler ==
    IF call.handler = "heap" THEN HeapHandler(Cmp(call.metric), k)
    ELSE ReservoirHandler(Cmp(call.metric), k)

(* a block boundary that does not look at the interrupt callback *)
Mut_AfterBlock(i1) == IF i1 >= nx THEN "done" ELSE "run"

(* InterruptCallback::check() at the end of the block, then the loop test   *)
(* i0 < nx of the next round                                                *)
AfterBlock(i1) ==
    IF interrupt THEN "interrupted" ELSE IF i1 >= nx THEN "done" ELSE "run"

(* a database-block loop that polls the callback after every tile *)
Mut_TileEvents(j0, bs_y) ==
    [n \in 1..(3 * ((ny - j0 + bs_y - 1) \div bs_y)) |->
        CASE n % 3 = 1 -> "sgemm_"
          [] n % 3 = 2 -> "add_results"
          [] OTHER -> "InterruptCallback::check"]

(* for (j0 = 0; j0 < ny; j0 += bs_y) { sgemm_(...); res.add_results(...); } *)
RECURSIVE TileEvents(_, _)
TileEvents(j0, bs_y) ==
    IF j0 >= ny THEN <<>>
    ELSE <<"sgemm_", "add_results">> \o TileEvents(j0 + bs_y, bs_y)

(* what one round of the loop over the query blocks calls, in order *)
BlockEvents(bs_y) ==
    <<"begin_multiple">> \o TileEvents(0, bs_y)
        \o <<"end_multiple", "InterruptCallback::check">>

(* the call up to its first query block *)
BlasStart ==
    /\ call = NoCall
    /\ \E routine \in Metrics, min_k_reservoir \in ReservoirThresholds,
          bs_x \in BlockSizes, bs_y \in BlockSizes :
        call' = BlasCall(routine, SelectHandler(Cmp(routine), min_k_reservoir),
                         bs_x, bs_y)
    /\ UNCHANGED <<x, y, bitset, k, ha, rres, ids, val, ress, interrupt, index_>>

(* one round of the loop over the query blocks: begin_multiple, the         *)
(* database blocks, end_multiple, InterruptCallback::check()                *)
BlasBlock ==
    /\ call.op = "exhaustive_blas" /\ call.pc = "run"
    /\ \E garbage \in (IF call.metric = "COSINE" THEN PastEnd(nx) ELSE {0}) :
        LET i1 == Min(call.i0 + call.bs_x, nx)
            R == QueryBlock(call.metric, BlasHandler, bitset, call.bs_y, nullptr,
                            garbage, call.i0, i1)
            written == [i \in DOMAIN x |->
                IF i \in call.i0..(i1 - 1)
                THEN {ToSlots(BlasHandler.C, k, S) : S \in R[i]}
                ELSE {ha[i]}]
        IN /\ ha' \in OneOfEach(written)
           /\ call' = [call EXCEPT !.i0 = i1, !.pc = AfterBlock(i1),
                                   !.trace = @ \o BlockEvents(call.bs_y)]
    /\ UNCHANGED <<x, y, bitset, k, rres, ids, val, ress, interrupt, index_>>

(* the environment asks for cancellation, before or during the call *)
RequestInterrupt ==
    /\ ~interrupt
    /\ \/ call = NoCall
       \/ call.op = "exhaustive_blas" /\ call.pc = "run"
       \/ call.op = "exhaustive_parallel_on_ny" /\ call.pc = "scan"
    /\ interrupt' = TRUE
    /\ UNCHANGED <<x, y, bitset, k, ha, rres, call, ids, val, ress, index_>>

InitBlas ==
    /\ x \in Batches(1, MaxNx, QVecs)
    /\ y \in Batches(0, MaxNy, Vecs)
    /\ bitset \in SUBSET (DOMAIN y)
    /\ k \in 1..MaxK
    /\ \E g \in GarbageSlots : ha = [i \in DOMAIN x |-> [n \in 1..k |-> g]]
    /\ rres = <<>> /\ call = NoCall
    /\ ids = <<>> /\ val = <<>> /\ ress = <<>> /\ interrupt = FALSE
    /\ index_ = nullptr

NextBlas ==
    \/ BlasStart
    \/ BlasBlock
    \/ RequestInterrupt

SpecBlas == InitBlas /\ [][NextBlas]_vars

(* after the abort of the inner-product or the L2 routine: the queries of   *)
(* the blocks run hold their final top-k of the whole database, the slots   *)
(* of the later queries what they held before                               *)
BlasInterruptedState ==
    (call.op = "exhaustive_blas" /\ call.pc = "interrupted"
        /\ call.metric \in {"IP", "L2"}) =>
        \A i \in DOMAIN x :
            IF i < call.i0
            THEN ha[i] \in {ToSlots(BlasHandler.C, k, S) :
                    S \in exhaustive_parallel_on_nx(BlasHandler, call.metric, bitset)[i]}
            ELSE \E g \in GarbageSlots : ha[i] = [n \in 1..k |-> g]

(* a block that ends while cancellation is asked for ends the call, and an  *)
(* aborted call writes nothing more                                         *)
BlasAbortsAtBoundary ==
    /\ (call.op = "exhaustive_blas" /\ call.pc = "run" /\ interrupt /\ ha' # ha)
            => call'.pc = "interrupted"
    /\ (call.op = "exhaustive_blas" /\ call.pc = "interrupted")
            => ha' = ha /\ call' = call

(* C10: when the interrupt callback signals cancellation at the boundary    *)
(* after a query block of a BLAS call, the call aborts without starting the *)
(* next block; the queries of the blocks run hold their finalized top-k of  *)
(* the entire database and the slots of the later queries are not written.  *)
C10_InterruptKeepsCompletedBlocks ==
    [](BlasInterruptedState) /\ [][BlasAbortsAtBoundary]_vars

(* a call aborted after its first query block with a query block left, the  *)
(* database in several tiles, the first query holding a result              *)
C10_Witness ==
    /\ call.op = "exhaustive_blas" /\ call.pc = "interrupted"
    /\ call.metric \in {"IP", "L2"}
    /\ 0 < call.i0 /\ call.i0 < nx /\ call.bs_y < ny
    /\ ha[0][1].id \in Unmasked /\ ha[0][1].id > 0
    /\ ha[0] # ha[call.i0]
    /\ Cardinality(Unmasked) > k

(* the positions of the event e in the trace t *)
EventsAt(t, e) == {n \in DOMAIN t : t[n] = e}

(* C11: in each BLAS routine the interrupt callback is polled exactly once  *)
(* per query block, right after the block's end_multiple and before the     *)
(* next block's begin_multiple, never inside the loop over the database     *)
(* blocks; an uninterrupted call with nx >= 1 and ny >= 1 polls it          *)
(* ceil(nx / bs_x) times.                                                   *)
C11_PolledOncePerQueryBlock ==
    call.op = "exhaustive_blas" =>
        LET t == call.trace
            checks == EventsAt(t, "InterruptCallback::check")
        IN /\ \A n \in checks :
                /\ n > 1 /\ t[n - 1] = "end_multiple"
                /\ n < Len(t) => t[n + 1] = "begin_multiple"
           /\ Cardinality(checks) = Cardinality(EventsAt(t, "begin_multiple"))
           /\ Cardinality(checks) = Cardinality(EventsAt(t, "end_multiple"))
           /\ Cardinality(checks) = (call.i0 + call.bs_x - 1) \div call.bs_x
           /\ (call.pc = "done" /\ nx >= 1 /\ ny >= 1) =>
                Cardinality(checks) = (nx + call.bs_x - 1) \div call.bs_x

(* an uninterrupted cosine call over two query blocks, each over two        *)
(* database blocks, that has polled the callback twice                       *)
C11_Witness ==
    /\ call.op = "exhaustive_blas" /\ call.pc = "done" /\ ~interrupt
    /\ call.metric = "COSINE"
    /\ nx = 2 /\ call.bs_x = 1 /\ ny = 2 /\ call.bs_y = 1
    /\ Cardinality(EventsAt(call.trace, "InterruptCallback::check")) = 2
    /\ Cardinality(EventsAt(call.trace, "add_results")) = 4

----------------------------------------------------------------------------
(* exhaustive_parallel_on_ny while the environment may ask for cancellation *)

NextNyInterrupt ==
    \/ NyStart
    \/ \E t \in 0..(MaxThreads - 1) : NyWorker(t)
    \/ NyMerge
    \/ RequestInterrupt

SpecNyInterrupt == InitNy /\ [][NextNyInterrupt]_vars

(* C12: the parallel-over-database routine polls the interrupt callback at  *)
(* every query-block boundary: once cancellation is asked for while a block *)
(* is processed, the end of that block is the end of the call and the next  *)
(* query block does not start.                                              *)
C12_ParallelOnNyPollsAtBoundary ==
    [][(call.op = "exhaustive_parallel_on_ny" /\ call.pc = "scan" /\ interrupt
            /\ call'.x_from # call.x_from)
        => call'.pc # "scan"]_vars

----------------------------------------------------------------------------
(* exhaustive_L2sqr_IP_seq on the sizes alone: which strategy it runs *)

PolicyThreads == 1..(2 * MaxThreads + 1)
PolicyNx == 0..(MaxThreads + 1)
PolicyNy ==
    UNION {{32 * T - 1, 32 * T} : T \in PolicyThreads}
        \cup {0, parallel_policy_threshold - 1, parallel_policy_threshold,
              parallel_policy_threshold + 1}

PolicyCall(nx_, ny_, T) ==
    [op |-> "exhaustive_L2sqr_IP_seq", nx |-> nx_, ny |-> ny_, T |-> T,
     ran |-> IF OverDatabase(nx_, ny_, T)
             THEN <<"exhaustive_parallel_on_ny">>
             ELSE <<"exhaustive_parallel_on_nx">>]

L2sqrIPSeq ==
    /\ call = NoCall
    /\ \E nx_ \in PolicyNx, ny_ \in PolicyNy, T \in PolicyThreads :
        call' = PolicyCall(nx_, ny_, T)
    /\ UNCHANGED <<x, y, bitset, k, ha, rres, ids, val, ress, interrupt, index_>>

InitPolicy ==
    /\ x = <<>> /\ y = <<>> /\ bitset = {} /\ k = 1 /\ ha = <<>>
    /\ rres = <<>> /\ call = NoCall
    /\ ids = <<>> /\ val = <<>> /\ ress = <<>> /\ interrupt = FALSE
    /\ index_ = nullptr

NextPolicy == L2sqrIPSeq

SpecPolicy == InitPolicy /\ [][NextPolicy]_vars

(* C13: for every nx, ny and maximal worker count T the dispatcher runs     *)
(* exactly one strategy: the parallel-over-database one exactly when        *)
(* ny > 65535 or (nx < T/2 and ny >= 32*T), T/2 being the quotient of the   *)
(* unsigned division, and the parallel-over-queries one in every other case *)
C13_ExactlyOneStrategy ==
    call.op = "exhaustive_L2sqr_IP_seq" =>
        /\ Len(call.ran) = 1
        /\ call.ran[1] \in {"exhaustive_parallel_on_ny", "exhaustive_parallel_on_nx"}
        /\ call.ran[1] = "exhaustive_parallel_on_ny"
            <=> \/ call.ny > 65535
                \/ call.nx < call.T \div 2 /\ call.ny >= 32 * call.T

(* an odd worker count, a query count between the quotient and the half,    *)
(* and a database of exactly 32*T vectors: the parallel-over-queries case   *)
C13_Witness ==
    /\ call.op = "exhaustive_L2sqr_IP_seq"
    /\ call.T = 3 /\ call.nx = 1 /\ call.ny = 96
    /\ call.ran = <<"exhaustive_parallel_on_nx">>

----------------------------------------------------------------------------
(* The BLAS routines seen from their handler: the cells of the tiles handed *)
(* to add_results and the reads of the norm arrays                          *)

(* y_norms of exhaustive_L2sqr_blas: none, or the caller's array of ny      *)
(* squared norms, each exact or one unit of round-off below                 *)
CallerNorms ==
    {nullptr} \cup
        {[null |-> FALSE, at |-> f] :
            f \in {g \in [DOMAIN y -> UNION {{n, n - 1} : n \in
                                  {fvec_norm_L2sqr(v, d) : v \in Vecs}}] :
                    \A j \in DOMAIN y :
                        g[j] \in {fvec_norm_L2sqr(y[j], d), fvec_norm_L2sqr(y[j], d) - 1}}}

(* the first index of every block of n positions cut in blocks of bs *)
BlockStarts(n, bs) == {p \in 0..(n - 1) : p % bs = 0}

(* the cells of the tile (i0..i1, j0..j1) as add_results addresses them *)
HandedTile(routine, i0, i1, j0, j1, y_norms, garbage) ==
    LET dis_tab == Tile(routine, i0, i1, j0, j1, y_norms, garbage)
    IN {[i |-> i, j |-> j, dis |-> dis_tab[(j1 - j0) * (i - i0) + j - j0]] :
            i \in i0..(i1 - 1), j \in j0..(j1 - 1)}

(* the cells of every tile of a call *)
Handed(routine, bs_x, bs_y, y_norms, garbage) ==
    UNION {HandedTile(routine, i0, Min(i0 + bs_x, nx), j0, Min(j0 + bs_y, ny),
                      y_norms, garbage) :
            i0 \in BlockStarts(nx, bs_x), j0 \in BlockStarts(ny, bs_y)}

(* the reads of the norm arrays the loop over a tile's cells makes: the     *)
(* array, its allocated length and the index                                *)
NormReads(routine) ==
    CASE routine = "IP" -> {}
      [] routine = "L2" ->
            {[array |-> "x_norms", len |-> nx, at |-> i] : i \in 0..(nx - 1)}
                \cup {[array |-> "y_norms", len |-> ny, at |-> j] : j \in 0..(ny - 1)}
      [] routine = "COSINE" ->
            {[array |-> "y_norms", len |-> Cardinality(DOMAIN fvec_norms_L2(x, nx)),
              at |-> j] : j \in 0..(ny - 1)}

TileCall(routine, bs_x, bs_y, y_norms, garbage) ==
    [op |-> "exhaustive_blas_tiles", metric |-> routine, bs_x |-> bs_x, bs_y |-> bs_y,
     y_norms |-> y_norms,
     handed |-> IF BlasReturnsEarly THEN {}
                ELSE Handed(routine, bs_x, bs_y, y_norms, garbage),
     reads |-> IF BlasReturnsEarly THEN {} ELSE NormReads(routine)]

(* the output rows after the call: untouched when it returns at once *)
TileResults(routine, bs_x, bs_y, y_norms, garbage) ==
    IF BlasReturnsEarly THEN {ha}
    ELSE Layouts(Cmp(routine),
                 exhaustive_blas(routine, HeapHandler(Cmp(routine), k), bitset,
                                 bs_x, bs_y, y_norms, garbage))

exhaustive_inner_product_blas ==
    /\ call = NoCall
    /\ \E bs_x \in BlockSizes, bs_y \in BlockSizes :
        /\ ha' \in TileResults("IP", bs_x, bs_y, nullptr, 0)
        /\ call' = TileCall("IP", bs_x, bs_y, nullptr, 0)
    /\ UNCHANGED <<x, y, bitset, k, rres, ids, val, ress, interrupt, index_>>

exhaustive_L2sqr_blas ==
    /\ call = NoCall
    /\ \E bs_x \in BlockSizes, bs_y \in BlockSizes, y_norms \in CallerNorms :
        /\ ha' \in TileResults("L2", bs_x, bs_y, y_norms, 0)
        /\ call' = TileCall("L2", bs_x, bs_y, y_norms, 0)
    /\ UNCHANGED <<x, y, bitset, k, rres, ids, val, ress, interrupt, index_>>

exhaustive_cosine_blas ==
    /\ call = NoCall
    /\ \E bs_x \in BlockSizes, bs_y \in BlockSizes, garbage \in PastEnd(nx) :
        /\ ha' \in TileResults("COSINE", bs_x, bs_y, nullptr, garbage)
        /\ call' = TileCall("COSINE", bs_x, bs_y, nullptr, garbage)
    /\ UNCHANGED <<x, y, bitset, k, rres, ids, val, ress, interrupt, index_>>

InitTile ==
    /\ x \in Batches(0, MaxNx, QVecs)
    /\ y \in Batches(0, MaxNy, Vecs)
    /\ bitset \in SUBSET (DOMAIN y)
    /\ k \in 1..MaxK
    /\ \E g \in GarbageSlots : ha = [i \in DOMAIN x |-> [n \in 1..k |-> g]]
    /\ rres = <<>> /\ call = NoCall
    /\ ids = <<>> /\ val = <<>> /\ ress = <<>> /\ interrupt = FALSE
    /\ index_ = nullptr

NextTile ==
    \/ exhaustive_inner_product_blas
    \/ exhaustive_L2sqr_blas
    \/ exhaustive_cosine_blas

SpecTile == InitTile /\ [][NextTile]_vars

(* C14: in the BLAS cosine routine the value handed to the handler for the  *)
(* pair (i, j) is inner_product(x_i, y_j) divided by the L2 norm of the     *)
(* database vector y_j: the value of the cosine kernel for (x_i, y_j).      *)
C14_CosineTileIsKernel ==
    (call.op = "exhaustive_blas_tiles" /\ call.metric = "COSINE") =>
        \A c \in call.handed :
            /\ c.dis = FDiv(fvec_inner_product(x[c.i], y[c.j], d),
                            FSqrt(fvec_norm_L2sqr(y[c.j], d)))
            /\ c.dis = fvec_cosine(x[c.i], y[c.j], d)

(* C15: in the BLAS L2 routine every distance handed to the handler is      *)
(* x_norm[i] + y_norm[j] - 2 * ip(i, j) when that is >= 0 and 0 otherwise,  *)
(* also with the caller's database norms; no negative distance reaches the  *)
(* handler or a result.                                                     *)
C15_L2TileClamped ==
    (call.op = "exhaustive_blas_tiles" /\ call.metric = "L2") =>
        /\ \A i \in DOMAIN x, j \in DOMAIN y :
                \E c \in call.handed : c.i = i /\ c.j = j
        /\ \A c \in call.handed :
            LET y_norm == IF call.y_norms.null THEN fvec_norm_L2sqr(y[c.j], d)
                          ELSE call.y_norms.at[c.j]
                v == fvec_norm_L2sqr(x[c.i], d) + y_norm
                        - 2 * fvec_inner_product(x[c.i], y[c.j], d)
            IN /\ v >= 0 => c.dis = v
               /\ v < 0 => c.dis = 0
               /\ c.dis >= 0
        /\ \A i \in DOMAIN ha : \A n \in DOMAIN ha[i] : ha[i][n].dis >= 0

(* the caller's norm of y_1 is a unit short of that of the equal query x_0: *)
(* the sum is negative, the cell handed and the result hold 0               *)
C15_Witness ==
    /\ call.op = "exhaustive_blas_tiles" /\ call.metric = "L2"
    /\ ~call.y_norms.null
    /\ nx = 1 /\ ny = 2 /\ x[0] = y[1]
    /\ call.y_norms.at[1] = fvec_norm_L2sqr(y[1], d) - 1
    /\ [i |-> 0, j |-> 1, dis |-> 0] \in call.handed
    /\ \E c \in call.handed : c.dis > 0
    /\ ha[0][1] = [dis |-> 0, id |-> 1]

(* C18: in the BLAS L2 and cosine routines every read of a norm array       *)
(* (x_norms[i], y_norms[j]) uses an index below the length the array was    *)
(* allocated with, for every nx >= 1 and ny >= 1, ny > nx included.         *)
C18_NormReadsInBounds ==
    (call.op = "exhaustive_blas_tiles" /\ call.metric \in {"L2", "COSINE"}
        /\ nx >= 1 /\ ny >= 1) =>
        \A r \in call.reads : r.at >= 0 /\ r.at < r.len

----------------------------------------------------------------------------
(* The query blocks of exhaustive_parallel_on_ny *)

(* block_x is the quotient of the cache size by the bytes of one query's    *)
(* vector and heaps, at most nx and at least 1; the blocks done so far are  *)
(* consecutive, non-empty, start at 0 and end where the next one starts;    *)
(* at the end of the call they cover 0..nx-1                                *)
NyBlocksPartition ==
    call.op = "exhaustive_parallel_on_ny" =>
        /\ call.block_x = Max(1, Min(call.l3_size \div (d * 4 + call.T * k * 12), nx))
        /\ \A n \in DOMAIN call.blocks :
            /\ call.blocks[n].x_from = (IF n = 1 THEN 0 ELSE call.blocks[n - 1].x_to)
            /\ call.blocks[n].x_from < call.blocks[n].x_to
            /\ call.blocks[n].x_to <= nx
        /\ call.x_from = (IF call.blocks = <<>> THEN 0
                          ELSE call.blocks[Len(call.blocks)].x_to)
        /\ call.pc = "done" =>
            \A i \in DOMAIN x :
                Cardinality({n \in DOMAIN call.blocks :
                    call.blocks[n].x_from <= i /\ i < call.blocks[n].x_to}) = 1

(* every step of the call either runs one more iteration of the parallel    *)
(* loop of the block, or ends the block and moves x_from forward, not       *)
(* beyond nx: the loop over the blocks ends.  The end of a block changes    *)
(* the output rows of that block's queries only; no other step changes any. *)
NyBlockStep ==
    (call.op = "exhaustive_parallel_on_ny" /\ call'.op = "exhaustive_parallel_on_ny") =>
        \/ /\ call'.x_from = call.x_from
           /\ call.done \subseteq call'.done /\ call'.done # call.done
           /\ ha' = ha
        \/ /\ call'.x_from > call.x_from /\ call'.x_from <= nx
           /\ \A i \in DOMAIN x :
                (i < call.x_from \/ i >= call'.x_from) => ha'[i] = ha[i]

(* C16: the parallel-over-database routine uses block_x = max(1, min(floor( *)
(* l3_size / (d*4 + T*k*12)), nx)); for nx >= 1 its loop over the blocks    *)
(* ends, the blocks x_from..x_to-1 partition 0..nx-1, and the merged result *)
(* of a block is copied into the output rows of that block's queries only.  *)
C16_BlocksPartitionQueries == [](NyBlocksPartition) /\ [][NyBlockStep]_vars

(* two blocks of one query each, the cache too small for one query's heaps; *)
(* the second block's result differs from what the row held before          *)
C16_Witness ==
    /\ call.op = "exhaustive_parallel_on_ny" /\ call.pc = "done"
    /\ nx = 2 /\ call.block_x = 1 /\ call.l3_size \div (d * 4 + call.T * k * 12) = 0
    /\ call.blocks = <<[x_from |-> 0, x_to |-> 1], [x_from |-> 1, x_to |-> 2]>>
    /\ ha[0] # ha[1] /\ ha[1][1].id >= 0

----------------------------------------------------------------------------
(* GpuFlatIndexNode (flat_gpu.cc): the node and the index it owns *)

GpuMaxTotal == 2

GpuDims == 1..2
GpuMetricTypes == {"L2", "IP", "unknown"}

(* what a use of the missing index may end in: the process is stopped, or   *)
(* the callee throws or returns                                             *)
NullUseOutcomes == {"crash", "faiss_inner_error", "success"}

(* an index of ntotal vectors of dimension d_, in host or in device memory *)
GpuIndex(d_, metric, ntotal, device) ==
    [null |-> FALSE, d |-> d_, metric |-> metric, ntotal |-> ntotal, device |-> device]

(* a call of the node: what it returned, whether index_ was null when it    *)
(* was made and whether the null index_ was used                            *)
GpuCall(op, ret, used) ==
    [op |-> op, ret |-> ret, empty |-> index_.null, used |-> used]

(* the process has not been stopped *)
Running == IF call = NoCall THEN TRUE ELSE call.ret # "crash"

Train ==
    /\ Running
    /\ \E dim \in GpuDims, metric_type \in GpuMetricTypes :
        IF metric_type = "unknown"
        THEN /\ call' = GpuCall("Train", "invalid_metric_type", FALSE)
             /\ UNCHANGED index_
        ELSE /\ index_' = GpuIndex(dim, metric_type, 0, "cpu")
             /\ call' = GpuCall("Train", "success", FALSE)
    /\ UNCHANGED <<x, y, bitset, k, ha, rres, ids, val, ress, interrupt>>

(* index_->add(n, x) *)
Add ==
    /\ Running
    /\ \E n \in 1..GpuMaxTotal :
        IF index_.null
        THEN /\ \E out \in NullUseOutcomes : call' = GpuCall("Add", out, TRUE)
             /\ UNCHANGED index_
        ELSE /\ index_.ntotal + n <= GpuMaxTotal
             /\ \/ /\ index_' = [index_ EXCEPT !.ntotal = @ + n]
                   /\ call' = GpuCall("Add", "success", FALSE)
                \/ /\ UNCHANGED index_
                   /\ call' = GpuCall("Add", "faiss_inner_error", FALSE)
    /\ UNCHANGED <<x, y, bitset, k, ha, rres, ids, val, ress, interrupt>>

(* if (!index_) { ...Err(Status::empty_index, ...); } with no return: the   *)
(* call goes on to index_->search(...)                                      *)
Search ==
    /\ Running
    /\ IF index_.null
       THEN \E out \in NullUseOutcomes : call' = GpuCall("Search", out, TRUE)
       ELSE \E out \in {"success", "faiss_inner_error"} :
                call' = GpuCall("Search", out, FALSE)
    /\ UNCHANGED <<x, y, bitset, k, ha, rres, ids, val, ress, interrupt, index_>>

(* if (!index_) { ...Err(Status::empty_index, ...); } with no return: the   *)
(* call goes on to faiss::write_index(index_.get(), &writer)                *)
Serialize ==
    /\ Running
    /\ IF index_.null
       THEN \E out \in NullUseOutcomes : call' = GpuCall("Serialize", out, TRUE)
       ELSE \E out \in {"success", "faiss_inner_error"} :
                call' = GpuCall("Serialize", out, FALSE)
    /\ UNCHANGED <<x, y, bitset, k, ha, rres, ids, val, ress, interrupt, index_>>

Deserialize ==
    /\ Running
    /\ \/ /\ call' = GpuCall("Deserialize", "invalid_binary_set", FALSE)
          /\ UNCHANGED index_
       \/ /\ call' = GpuCall("Deserialize", "faiss_inner_error", FALSE)
          /\ UNCHANGED index_
       \/ \E dim \in GpuDims, metric \in GpuMetricTypes \ {"unknown"},
             ntotal \in 0..GpuMaxTotal :
            /\ index_' = GpuIndex(dim, metric, ntotal, "gpu")
            /\ call' = GpuCall("Deserialize", "success", FALSE)
    /\ UNCHANGED <<x, y, bitset, k, ha, rres, ids, val, ress, interrupt>>

RangeSearch ==
    /\ Running
    /\ call' = GpuCall("RangeSearch", "not_implemented", FALSE)
    /\ UNCHANGED <<x, y, bitset, k, ha, rres, ids, val, ress, interrupt, index_>>

InitGpu ==
    /\ x = <<>> /\ y = <<>> /\ bitset = {} /\ k = 1 /\ ha = <<>>
    /\ rres = <<>> /\ call = NoCall
    /\ ids = <<>> /\ val = <<>> /\ ress = <<>> /\ interrupt = FALSE
    /\ index_ = nullptr

NextGpu ==
    \/ Train
    \/ Add
    \/ Search
    \/ Serialize
    \/ Deserialize
    \/ RangeSearch

SpecGpu == InitGpu /\ [][NextGpu]_vars

(* C17: on a GpuFlatIndexNode that holds no index, Search and Serialize     *)
(* return the empty_index error and do not use the missing index, whatever  *)
(* calls were made before.                                                  *)
C17_EmptyIndexReported ==
    (call.op \in {"Search", "Serialize"} /\ call.empty) =>
        call.ret = "empty_index" /\ ~call.used

----------------------------------------------------------------------------
(* knn_jaccard *)

(* res.add_results(j0, j1, ip_block): no mask is passed on to the handler *)
JaccardCall ==
    [op |-> "knn_jaccard",
     handed |-> IF BlasReturnsEarly THEN {}
                ELSE Handed("JACCARD", JaccardBsX, JaccardBsY, nullptr, 0)]

knn_jaccard ==
    /\ call = NoCall
    /\ ha' \in (IF BlasReturnsEarly THEN {ha}
                ELSE Layouts("CMax",
                             exhaustive_blas("JACCARD", HeapHandler("CMax", k), {},
                                             JaccardBsX, JaccardBsY, nullptr, 0)))
    /\ call' = JaccardCall
    /\ UNCHANGED <<x, y, bitset, k, rres, ids, val, ress, interrupt, index_>>

InitJaccard ==
    /\ x \in Batches(1, MaxNx, JaccardVecs)
    /\ y \in Batches(0, MaxNy, JaccardVecs)
    /\ bitset \in SUBSET (DOMAIN y)
    /\ k \in 1..MaxK
    /\ \E g \in GarbageSlots : ha = [i \in DOMAIN x |-> [n \in 1..k |-> g]]
    /\ rres = <<>> /\ call = NoCall
    /\ ids = <<>> /\ val = <<>> /\ ress = <<>> /\ interrupt = FALSE
    /\ index_ = nullptr

NextJaccard == knn_jaccard

SpecJaccard == InitJaccard /\ [][NextJaccard]_vars

(* the Jaccard distance of two vectors: 1 - ip / (|a|^2 + |b|^2 - ip) *)
JaccardDistance(a, b) ==
    LET ip == fvec_inner_product(a, b, JaccardDim)
    IN Scale - FDiv(ip, fvec_inner_product(a, a, JaccardDim)
                            + fvec_inner_product(b, b, JaccardDim) - ip)

(* C19: after a knn_jaccard call with d a multiple of 4 and a mask that is  *)
(* not empty, no masked database position is an id of any query's result,   *)
(* and every value handed to the result handler is the Jaccard distance of  *)
(* its pair, not an inner product left in the tile.                         *)
C19_JaccardHonoursMask ==
    (call.op = "knn_jaccard" /\ bitset # {}) =>
        /\ \A i \in DOMAIN ha : \A n \in DOMAIN ha[i] : ha[i][n].id \notin bitset
        /\ \A c \in call.handed : c.dis = JaccardDistance(x[c.i], y[c.j])

----------------------------------------------------------------------------
(* The pairwise distances of an Elkan block *)

(* the pairs i > j of the positions 0..n-1 *)
Pairs(n) == {p \in (0..(n - 1)) \X (0..(n - 1)) : p[1] > p[2]}

(* C20: for a block of n <= bs_y vectors the index min(i,j) +                *)
(* max(i,j)*(max(i,j)-1)/2 maps the unordered pairs of distinct members     *)
(* one-to-one into 0..bs_y*(bs_y-1)/2-1; with the rows dealt out by worker  *)
(* rank no two workers write the same cell; every cell the query phase      *)
(* reads was written by the block's precomputation before; the query phase  *)
(* never looks up a pair with i = j.                                        *)
C20_ElkanPairwiseCells ==
    call.op = "elkan_L2_sse" =>
        /\ \A p \in Pairs(call.bs_y) :
            /\ YIndex(p[1], p[2], 0) = p[2] + (p[1] * (p[1] - 1)) \div 2
            /\ YIndex(p[2], p[1], 0) = YIndex(p[1], p[2], 0)
            /\ YIndex(p[1], p[2], 0) \in 0..((call.bs_y * (call.bs_y - 1)) \div 2 - 1)
            /\ \A q \in Pairs(call.bs_y) :
                YIndex(p[1], p[2], 0) = YIndex(q[1], q[2], 0) => p = q
        /\ \A n \in DOMAIN call.blocks :
            LET b == call.blocks[n]
            IN /\ b.j1 - b.j0 <= call.bs_y
               /\ {<<w.i - b.j0, w.j - b.j0>> : w \in b.writes} = Pairs(b.j1 - b.j0)
               /\ \A w \in b.writes : w.rank = (w.i - b.j0 - 1) % call.nt
               /\ \A w1 \in b.writes : \A w2 \in b.writes :
                    w1.cell = w2.cell => w1 = w2
               /\ \A l \in b.lookups :
                    /\ l.i # l.j
                    /\ \E w \in b.writes : w.cell = l.cell /\ {w.i, w.j} = {l.i, l.j}

(* a block of three vectors filled by two workers, rank 0 writing row 1 and *)
(* rank 1 row 2, and a query whose scan moves to y_1 and then looks up the  *)
(* pair (1, 2)                                                              *)
C20_Witness ==
    /\ call.op = "elkan_L2_sse" /\ call.bs_y = 3 /\ call.nt = 2 /\ ny = 3
    /\ Len(call.blocks) = 1
    /\ [rank |-> 0, i |-> 1, j |-> 0, cell |-> 0] \in call.blocks[1].writes
    /\ [rank |-> 1, i |-> 2, j |-> 1, cell |-> 2] \in call.blocks[1].writes
    /\ [i |-> 1, j |-> 2, cell |-> 2] \in call.blocks[1].lookups

====
